---- MODULE Spec2Model ----
(***************************************************************************)
(* A model of runx: the hyperparameter-space expansion of                  *)
(* runx/distributions.py, the ConditionalProxy of runx/utils.py and the    *)
(* LogX logger of runx/logx.py.                                            *)
(*                                                                         *)
(* The three parts have their own variables and their own specifications:  *)
(* Spec (a caller owning an ordered mapping name -> raw specification and  *)
(* calling enumerate_hparams(hparams, num_trials) on it, possibly several  *)
(* times), ProxySpec (a caller making calls through ConditionalProxy       *)
(* objects around one counter object) and the LogX specifications (a       *)
(* process using one LogX object on one log directory).  A specification   *)
(* holds the variables of the other parts at their initial values.         *)
(*                                                                         *)
(* Python values are records [ty, v]: ty is the Python type and v the      *)
(* payload.  Floats drawn by a sampler are represented by the integer grid *)
(* points of the sampler's range (ty = "float").                           *)
(***************************************************************************)
EXTENDS Integers, Sequences, FiniteSets, TLC

VARIABLES
    hparams,       \* the caller's mapping: a sequence of [key, val], in mapping order
    before,        \* the mapping as it was when the last call was entered
    num_trials,    \* the num_trials argument of the last call
    pc,            \* "idle": the caller may call; "returned": a call has just ended
    outcome,       \* "none", "ok", or the exception the last call raised
    realizations,  \* the list the last call returned (<<>> when it raised)
    warned,        \* whether the last call printed the rounding warning
    draws          \* how many times the last call read the random source

VARIABLES
    proxy,             \* the ConditionalProxy object the caller holds
    counter,           \* counter[0], the state of the real object behind the proxies
    post_hook_called,  \* how many times the caller's post_hook has run
    last_call          \* the last call made through a proxy and what it did

VARIABLES
    lx,    \* the fields of the LogX object
    tb,    \* the SummaryWriter a LogX object made: the calls it has received
    fs,    \* the files of logdir, [name, content], in the order of their creation
    ctx,   \* the suspend_flush blocks the process is inside of, innermost last
    last   \* the last LogX operation and what it did

planner_vars == <<hparams, before, num_trials, pc, outcome, realizations, warned, draws>>
proxy_vars == <<proxy, counter, post_hook_called, last_call>>
logx_vars == <<lx, tb, fs, ctx, last>>

vars == <<planner_vars, proxy_vars, logx_vars>>

\* no mapping and no call of enumerate_hparams yet
PlannerIdle ==
    /\ hparams = <<>>
    /\ before = <<>>
    /\ num_trials = 0
    /\ pc = "idle"
    /\ outcome = "none"
    /\ realizations = <<>>
    /\ warned = FALSE
    /\ draws = 0

\* ---------------------------------------------------------------- bounds
MaxParams == 2
MaxTrials == 2
MaxProxyCalls == 3
MaxRank == 1
MaxNesting == 2
MaxTbCalls == 3
MaxMetricCalls == 2
MaxFiles == 2
MaxSaves == 2
MaxInstances == 2
MaxMsgs == 2

\* ---------------------------------------------------------- Python values
PyInt(n) == [ty |-> "int", v |-> n]
PyFloat(n) == [ty |-> "float", v |-> n]
\* a list or a tuple: line 99 treats the two alike
PyList(s) == [ty |-> "list", v |-> s]
PyDict(r) == [ty |-> "dict", v |-> r]
PyDist(d) == [ty |-> "dist", v |-> d]
Raise(e) == [ty |-> "raise", v |-> e]
None == [ty |-> "NoneType", v |-> 0]
PyStr(s) == [ty |-> "str", v |-> s]

IsRaise(x) == x.ty = "raise"

\* ----------------------------------------------------------- small helpers
RECURSIVE SumSeq(_)
SumSeq(s) == IF s = <<>> THEN 0 ELSE Head(s) + SumSeq(Tail(s))

Range(s) == {s[i] : i \in DOMAIN s}

\* the subsequence of s at the positions where Keep holds, in order
RECURSIVE Filter(_, _)
Filter(s, keep) ==
    IF s = <<>> THEN <<>>
    ELSE IF keep[1] THEN <<Head(s)>> \o Filter(Tail(s), Tail(keep))
    ELSE Filter(Tail(s), Tail(keep))

\* math.ceil(a / b) for integers a >= 0, b > 0
Ceil(a, b) == (a + b - 1) \div b

\* ------------------------------------------- utils.py: ConditionalProxy
\* An object behind a proxy is known by its class; Methods is what getattr
\* finds on it.  Increment is the class of utils_test.py.
Methods(real_object) ==
    CASE real_object = "Increment" -> {"call"}
      [] real_object = "SummaryWriter" -> {"add_scalar", "add_scalars", "add_image", "flush"}
      [] OTHER -> {}

ConditionalProxy(real_object, condition, post_hook) ==
    [real_object |-> real_object, condition |-> condition, post_hook |-> post_hook]

\* what calling a _CallableProxy does, in order: the steps the caller's
\* world has to carry out.  post_hook is "None" or the name of the hook.
\* _CallableProxy.__call__: the real callable, then the hook if there is one;
\* the value returned is the real callable's
CallableProxy_call(real_callable, post_hook) ==
    <<[do |-> "real_callable", name |-> real_callable]>>
        \o (IF post_hook # "None" THEN <<[do |-> "post_hook", name |-> post_hook]>> ELSE <<>>)

\* __getattr__ forwarding whatever the condition says
ConditionalProxy_getattr_unconditional(self, name) ==
    IF name \notin Methods(self.real_object) THEN Raise("AttributeError")
    ELSE [ty |-> "_CallableProxy", v |-> CallableProxy_call(name, self.post_hook)]

\* ConditionalProxy.__getattr__(name): _throw_away when the condition is
\* false, else the attribute of the real object (AttributeError when it has
\* none of that name) wrapped in a _CallableProxy.  v holds the steps a call
\* of the returned function carries out.
ConditionalProxy_getattr(self, name) ==
    IF ~self.condition THEN [ty |-> "_throw_away", v |-> <<>>]
    ELSE IF name \notin Methods(self.real_object) THEN Raise("AttributeError")
    ELSE [ty |-> "_CallableProxy", v |-> CallableProxy_call(name, self.post_hook)]

\* the arguments the caller passes and the names it calls
CallValues == {10, 42, -10}
CallNames == {"call", "blah"}

\* Increment.call(value): counter[0] += value, returning None
Increment_call(c, value) == c + value

\* carrying out the steps of a call of proxy.<name>(value) on the caller's
\* counter and hook flag, one after the other
RECURSIVE RunSteps(_, _, _)
RunSteps(steps, value, world) ==
    IF steps = <<>> THEN world
    ELSE LET st == Head(steps)
             next == IF st.do = "real_callable"
                     THEN [world EXCEPT !.counter = Increment_call(@, value),
                                        !.trace = Append(@, <<st.name, value>>)]
                     ELSE [world EXCEPT !.post_hook_called = @ + 1,
                                        !.trace = Append(@, <<st.name>>)]
         IN  RunSteps(Tail(steps), value, next)

NoCall ==
    [n |-> 0, name |-> "none", value |-> 0, condition |-> FALSE, post_hook |-> "None",
     counter_before |-> 0, hook_before |-> 0, trace |-> <<>>, result |-> None]

ProxyInit ==
    /\ proxy = ConditionalProxy("Increment", TRUE, "None")
    /\ counter = 0
    /\ post_hook_called = 0
    /\ last_call = NoCall

\* proxy = utils.ConditionalProxy(Increment(), condition[, post_hook])
NewProxy(condition, post_hook) ==
    /\ proxy' = ConditionalProxy("Increment", condition, post_hook)
    /\ proxy' # proxy
    /\ UNCHANGED <<counter, post_hook_called, last_call>>
    /\ UNCHANGED <<planner_vars, logx_vars>>

\* proxy.<name>(value)
ProxyCall(name, value) ==
    /\ last_call.n < MaxProxyCalls
    /\ \E fn \in {ConditionalProxy_getattr(proxy, name)} :
       \E world \in {RunSteps(IF IsRaise(fn) THEN <<>> ELSE fn.v, value,
                               [counter |-> counter,
                                post_hook_called |-> post_hook_called,
                                trace |-> <<>>])} :
          /\ counter' = (IF IsRaise(fn) THEN counter ELSE world.counter)
          /\ post_hook_called' =
                (IF IsRaise(fn) THEN post_hook_called ELSE world.post_hook_called)
          /\ last_call' = [n |-> last_call.n + 1, name |-> name, value |-> value,
                           condition |-> proxy.condition, post_hook |-> proxy.post_hook,
                           counter_before |-> counter, hook_before |-> post_hook_called,
                           trace |-> (IF IsRaise(fn) THEN <<>> ELSE world.trace),
                           result |-> (IF IsRaise(fn) THEN fn ELSE None)]
    /\ UNCHANGED proxy
    /\ UNCHANGED <<planner_vars, logx_vars>>

ProxyNext ==
    \/ \E condition \in BOOLEAN, post_hook \in {"None", "post_hook"} :
          NewProxy(condition, post_hook)
    \/ \E name \in CallNames, value \in CallValues : ProxyCall(name, value)

\* ------------------------------------------------------- logx.py: logdir
\* A file name is stem, decimal digits, one separator character, extension:
\* metrics.csv has no digits, best_checkpoint_ep10.pth has the digits 1, 0.
FileName(stem, digits, sep, ext) ==
    [stem |-> stem, digits |-> digits, sep |-> sep, ext |-> ext]

NoPath == FileName("", <<>>, "", "")
METRICS_CSV == FileName("metrics", <<>>, ".", "csv")
LOGGING_LOG == FileName("logging", <<>>, ".", "log")
HPARAMS_JSON == FileName("hparams", <<>>, ".", "json")
\* the event file a SummaryWriter creates in its log_dir when it is made
EVENTS_FILE == FileName("events.out.tfevents", <<>>, ".", "host")

\* '{}'.format(epoch) for an epoch that is a natural number
RECURSIVE Decimal(_)
Decimal(n) == IF n < 10 THEN <<n>> ELSE Decimal(n \div 10) \o <<n % 10>>

\* 'last_checkpoint_ep{}.pth'.format(epoch), 'best_checkpoint_ep{}.pth'.format(epoch)
last_checkpoint_ep(epoch) == FileName("last_checkpoint_ep", Decimal(epoch), ".", "pth")
best_checkpoint_ep(epoch) == FileName("best_checkpoint_ep", Decimal(epoch), ".", "pth")

\* int(digits)
RECURSIVE ParseInt(_)
ParseInt(digits) ==
    IF digits = <<>> THEN 0
    ELSE 10 * ParseInt(SubSeq(digits, 1, Len(digits) - 1)) + digits[Len(digits)]

Names(files) == [i \in DOMAIN files |-> files[i].name]
Exists(files, name) == \E i \in DOMAIN files : files[i].name = name
ContentOf(files, name) == files[CHOOSE i \in DOMAIN files : files[i].name = name].content

\* open(name, 'w') and write: the file is created or replaced
WriteFile(files, name, content) ==
    IF Exists(files, name)
    THEN [i \in DOMAIN files |->
             IF files[i].name = name THEN [name |-> name, content |-> content] ELSE files[i]]
    ELSE Append(files, [name |-> name, content |-> content])

\* os.remove(name) of a file that exists
RemoveFile(files, name) == SelectSeq(files, LAMBDA f : f.name # name)

\* copyfile(src, dst)
copyfile(files, src, dst) == WriteFile(files, dst, ContentOf(files, src))

\* open(name, 'a+'): the file is created empty unless it exists
OpenAppend(files, name) ==
    IF Exists(files, name) THEN files ELSE Append(files, [name |-> name, content |-> PyList(<<>>)])

\* writerow(row) on a file opened for appending, then flush()
AppendRow(files, name, row) ==
    [i \in DOMAIN files |->
        IF files[i].name = name
        THEN [name |-> name, content |-> PyList(Append(files[i].content.v, row))]
        ELSE files[i]]

\* save_hparams: hparams.json is written unless it is there already
save_hparams(files) ==
    IF Exists(files, HPARAMS_JSON) THEN files ELSE WriteFile(files, HPARAMS_JSON, PyStr("hparams"))

\* the orderings of a set of names
RECURSIVE Orderings(_)
Orderings(names) ==
    IF names = {} THEN {<<>>}
    ELSE UNION {{<<first>> \o rest : rest \in Orderings(names \ {first})} : first \in names}

\* os.listdir(logdir): the names in an order of the file system's choosing
Listings(files) == Orderings(Range(Names(files)))

\* re.fullmatch(r'^best_checkpoint_ep([0-9]+).pth$', filename): the dot of
\* the pattern stands for any one character
MatchesBest(filename) ==
    /\ filename.stem = "best_checkpoint_ep"
    /\ filename.digits # <<>>
    /\ filename.ext = "pth"

\* the loop of get_best_checkpoint over a listing
RECURSIVE ScanListing(_, _, _)
ScanListing(listing, best_epoch, best_checkpoint) ==
    IF listing = <<>> THEN best_checkpoint
    ELSE LET filename == Head(listing)
         IN  IF MatchesBest(filename) /\ ParseInt(filename.digits) > best_epoch
             THEN ScanListing(Tail(listing), ParseInt(filename.digits), filename)
             ELSE ScanListing(Tail(listing), best_epoch, best_checkpoint)

\* get_best_checkpoint for one listing of logdir: NoPath stands for None
get_best_checkpoint(listing) == ScanListing(listing, -1, NoPath)

\* ------------------------------------------------------------ logx.py: LogX
\* the aliases of utils.py
trn_names == {"trn", "train", "training"}
val_names == {"val", "validate", "validation", "test"}

\* time.time(): the model keeps no clock
Timestamp == [ty |-> "float", v |-> 0]

\* LogX(): only `initialized` is set; the other fields are listed with
\* placeholders and has_rank0_fields tells whether lines 138-158 have set
\* theirs
NewLogX ==
    [initialized |-> FALSE, rank0 |-> FALSE, tb_writer |-> "None", eager_flush |-> FALSE,
     tensorboard |-> ConditionalProxy("None", FALSE, "None"),
     has_rank0_fields |-> FALSE,
     save_metric |-> None, best_metric |-> None,
     save_ckpt_fn |-> NoPath, best_ckpt_fn |-> NoPath,
     epoch |-> [train |-> 0, val |-> 0], no_timestamp |-> FALSE]

\* calls: the add_* calls the writer received, each with the number of
\* flushes before it; flushes: its flush() calls; hook_runs: how many times
\* _flush_tensorboard has run since the writer was made
NoWriter == [calls |-> <<>>, flushes |-> 0, hook_runs |-> 0]

\* instance numbers the LogX objects made on the logdir and saves lists the
\* save_model calls made on it, by every object; the rest is
\* the arguments of initialize and the metric calls made since, for the
\* validation phase: how many, and how many of them with an explicit epoch
NoHistory ==
    [tensorboard |-> FALSE, global_rank |-> 0, val_calls |-> 0, val_explicit |-> 0,
     epochs |-> [train |-> <<>>, val |-> <<>>], instance |-> 1, saves |-> <<>>]

NoOp ==
    [n |-> 0, op |-> "none", arg |-> None, calls_before |-> 0, flushes_before |-> 0,
     hooks_before |-> 0, eager_before |-> FALSE, rows_before |-> <<>>,
     files_before |-> <<>>, result |-> None, hist |-> NoHistory]

LogXInit ==
    /\ lx = NewLogX
    /\ tb = NoWriter
    /\ fs = <<>>
    /\ ctx = <<>>
    /\ last = NoOp

\* the rows of metrics.csv (none while the file does not exist)
MetricsRows(files) ==
    IF Exists(files, METRICS_CSV) THEN ContentOf(files, METRICS_CSV).v ELSE <<>>

\* what an operation finds when it starts
Record(op, arg, result) ==
    [n |-> last.n + 1, op |-> op, arg |-> arg, calls_before |-> Len(tb.calls),
     flushes_before |-> tb.flushes, hooks_before |-> tb.hook_runs,
     eager_before |-> lx.eager_flush, rows_before |-> MetricsRows(fs),
     files_before |-> fs, result |-> result, hist |-> last.hist]

\* the 'start' row of initialize, lines 161-175
StartRow(no_timestamp) ==
    <<PyStr("start"), PyStr("start/step"), PyInt(0)>>
        \o (IF no_timestamp THEN <<>> ELSE <<PyStr("timestamp"), Timestamp>>)

\* a writer on every rank that asks for tensorboard
MakesWriter_any_rank(tensorboard, rank0) == tensorboard

\* lines 116-120 and 131: a SummaryWriter is made, and the proxy forwards,
\* on rank 0 with tensorboard on
MakesWriter(tensorboard, rank0) == rank0 /\ tensorboard

\* initialize(logdir, hparams=..., tensorboard=..., no_timestamp=...,
\* global_rank=..., eager_flush=...) on an object not yet initialized
\* a new object that starts without the metric of the checkpoint it found
stored_metric_ignored(files, best_ckpt_fn) == None

\* lines 155-157: best_metric is the '__metric' of the best checkpoint found
stored_metric(files, best_ckpt_fn) ==
    IF best_ckpt_fn = NoPath THEN None ELSE ContentOf(files, best_ckpt_fn).v.metric

Initialize(tensorboard, global_rank, eager_flush, no_timestamp, with_hparams) ==
    /\ ~lx.initialized
    /\ LET rank0 == (global_rank = 0)
           makes_writer == MakesWriter(tensorboard, rank0)
           started == [NoHistory EXCEPT !.tensorboard = tensorboard,
                                        !.global_rank = global_rank,
                                        !.instance = last.hist.instance,
                                        !.saves = last.hist.saves]
           fs_hparams == IF with_hparams THEN save_hparams(fs) ELSE fs
           fs_events == IF makes_writer
                        THEN WriteFile(fs_hparams, EVENTS_FILE, PyList(<<>>))
                        ELSE fs_hparams
           fs_open == OpenAppend(OpenAppend(fs_events, METRICS_CSV), LOGGING_LOG)
           common == [NewLogX EXCEPT
                        !.initialized = TRUE,
                        !.rank0 = rank0,
                        !.tb_writer = IF makes_writer THEN "SummaryWriter" ELSE "None",
                        !.eager_flush = eager_flush,
                        !.tensorboard =
                            ConditionalProxy(IF makes_writer THEN "SummaryWriter" ELSE "None",
                                             makes_writer, "_flush_tensorboard")]
       IN  /\ tb' = NoWriter
           /\ ctx' = ctx
           /\ IF ~rank0
              THEN /\ lx' = common
                   /\ fs' = fs_events
                   /\ last' = [Record("initialize", PyInt(global_rank), None)
                                   EXCEPT !.n = 0, !.hist = started]
              ELSE \E best \in {get_best_checkpoint(listing) : listing \in Listings(fs_open)} :
                      IF best # NoPath /\ ContentOf(fs_open, best).ty # "dict"
                      THEN \* torch.load fails on a file that is no checkpoint
                           /\ lx' = common
                           /\ fs' = fs_open
                           /\ last' = [Record("initialize", PyInt(global_rank),
                                              Raise("UnpicklingError"))
                                           EXCEPT !.n = 0, !.hist = started]
                      ELSE /\ lx' = [common EXCEPT
                                        !.has_rank0_fields = TRUE,
                                        !.best_ckpt_fn = best,
                                        !.best_metric = stored_metric(fs_open, best),
                                        !.no_timestamp = no_timestamp]
                           /\ fs' = AppendRow(fs_open, METRICS_CSV, StartRow(no_timestamp))
                           /\ last' = [Record("initialize", PyInt(global_rank), None)
                                           EXCEPT !.n = 0, !.hist = started]
    /\ UNCHANGED <<planner_vars, proxy_vars>>

\* a hook that flushes whatever eager_flush says
flush_tensorboard_always(self, writer) ==
    IF self.tb_writer # "None"
    THEN [writer EXCEPT !.flushes = @ + 1, !.hook_runs = @ + 1]
    ELSE [writer EXCEPT !.hook_runs = @ + 1]

\* _flush_tensorboard: tb_writer.flush() when eager_flush and a writer exists
flush_tensorboard(self, writer) ==
    IF self.eager_flush /\ self.tb_writer # "None"
    THEN [writer EXCEPT !.flushes = @ + 1, !.hook_runs = @ + 1]
    ELSE [writer EXCEPT !.hook_runs = @ + 1]

\* carrying out the steps of a call of self.tensorboard.<method>(tag) on the
\* writer, one after the other
RECURSIVE RunWriterSteps(_, _, _, _)
RunWriterSteps(steps, tag, self, writer) ==
    IF steps = <<>> THEN writer
    ELSE LET st == Head(steps)
             next == IF st.do = "real_callable"
                     THEN [writer EXCEPT !.calls = Append(@, [method |-> st.name, tag |-> tag,
                                                              flushes |-> writer.flushes])]
                     ELSE flush_tensorboard(self, writer)
         IN  RunWriterSteps(Tail(steps), tag, self, next)

\* self.tensorboard.<method>(tag, ...): the writer after the call
tensorboard_call(self, writer, method, tag) ==
    LET fn == ConditionalProxy_getattr(self.tensorboard, method)
    IN  RunWriterSteps(fn.v, tag, self, writer)

\* add_scalar(name, val, idx), add_image(path, img, step), and a caller's
\* own self.tensorboard.<method>(...)
LogXWrite(method, tag) ==
    /\ lx.initialized
    /\ last.n < MaxTbCalls
    /\ tb' = tensorboard_call(lx, tb, method, tag)
    /\ last' = Record(method, [ty |-> "tag", v |-> tag], None)
    /\ UNCHANGED <<lx, fs, ctx>>
    /\ UNCHANGED <<planner_vars, proxy_vars>>

\* entering `with suspend_flush(flush_at_end):`, lines 211-213
SuspendEnter(flush_at_end) ==
    /\ lx.initialized
    /\ last.n < MaxTbCalls
    /\ Len(ctx) < MaxNesting
    /\ ctx' = Append(ctx, [prev_flush |-> lx.eager_flush, flush_at_end |-> flush_at_end])
    /\ lx' = [lx EXCEPT !.eager_flush = FALSE]
    /\ last' = Record("suspend_flush", [ty |-> "bool", v |-> flush_at_end], None)
    /\ UNCHANGED <<tb, fs>>
    /\ UNCHANGED <<planner_vars, proxy_vars>>

\* leaving the innermost block, lines 215-217
SuspendExit ==
    /\ ctx # <<>>
    /\ LET block == ctx[Len(ctx)]
           restored == [lx EXCEPT !.eager_flush = block.prev_flush]
       IN  /\ lx' = restored
           /\ tb' = IF block.flush_at_end THEN flush_tensorboard(restored, tb) ELSE tb
           /\ last' = [Record("exit", [ty |-> "block", v |-> block], None)
                           EXCEPT !.n = last.n]
    /\ ctx' = SubSeq(ctx, 1, Len(ctx) - 1)
    /\ UNCHANGED fs
    /\ UNCHANGED <<planner_vars, proxy_vars>>

\* the phases, metric dictionaries (as lists of items, in dictionary order)
\* and epoch arguments a caller passes to metric
MetricPhases == trn_names \cup val_names \cup {"eval"}
MetricDicts ==
    { <<[k |-> "top1", v |-> PyInt(1)], [k |-> "top5", v |-> PyInt(2)]>>,
      <<[k |-> "loss", v |-> PyInt(3)]>> }
MetricEpochs == {None, PyInt(5)}

\* the items written last to first
RECURSIVE ItemFields_reversed(_)
ItemFields_reversed(items) ==
    IF items = <<>> THEN <<>>
    ELSE ItemFields_reversed(Tail(items)) \o <<PyStr(Head(items).k), Head(items).v>>

\* the items of a dictionary as the fields of a csv row, lines 244-246
RECURSIVE ItemFields(_)
ItemFields(items) ==
    IF items = <<>> THEN <<>>
    ELSE <<PyStr(Head(items).k), Head(items).v>> \o ItemFields(Tail(items))

\* the add_scalar calls of lines 264-266, made with eager_flush off
RECURSIVE ScalarWrites(_, _, _, _)
ScalarWrites(items, phase, self, writer) ==
    IF items = <<>> THEN writer
    ELSE ScalarWrites(Tail(items), phase, self,
                      tensorboard_call(self, writer, "add_scalar", <<phase, Head(items).k>>))

\* the counter incremented after an explicit epoch as well
count_epoch_always(self, canonical_phase, epoch) ==
    [self EXCEPT !.epoch[canonical_phase] = @ + 1]

\* if epoch is None: self.epoch[canonical_phase] += 1, lines 269-270
count_epoch(self, canonical_phase, epoch) ==
    IF epoch = None
    THEN [self EXCEPT !.epoch[canonical_phase] = @ + 1]
    ELSE self

\* metric(phase, metrics, epoch)
Metric(phase, metrics, epoch) ==
    /\ lx.initialized
    /\ last.n < MaxMetricCalls
    /\ LET arg == [ty |-> "metric", v |-> [phase |-> phase, metrics |-> metrics, epoch |-> epoch]]
           canonical_phase == IF phase \in trn_names THEN "train" ELSE "val"
           counted == IF epoch # None
                      THEN [lx EXCEPT !.epoch[canonical_phase] = epoch.v]
                      ELSE lx
           csv_line == <<PyStr(canonical_phase)>> \o ItemFields(metrics)
                           \o <<PyStr("epoch"), PyInt(counted.epoch[canonical_phase])>>
                           \o (IF lx.no_timestamp THEN <<>> ELSE <<PyStr("timestamp"), Timestamp>>)
           suspended == [counted EXCEPT !.eager_flush = FALSE]
           written == ScalarWrites(metrics, phase, suspended, tb)
       IN  IF ~lx.rank0
           THEN /\ last' = Record("metric", arg, None)
                /\ UNCHANGED <<lx, tb, fs>>
           ELSE IF phase \notin trn_names \cup val_names
           THEN /\ last' = Record("metric", arg, Raise("TypeError"))
                /\ UNCHANGED <<lx, tb, fs>>
           ELSE /\ fs' = IF canonical_phase = "val"
                          THEN AppendRow(fs, METRICS_CSV, csv_line)
                          ELSE fs
                /\ tb' = flush_tensorboard(counted, written)
                /\ lx' = count_epoch(counted, canonical_phase, epoch)
                /\ last' = [Record("metric", arg, None) EXCEPT
                               !.hist.val_calls =
                                   IF canonical_phase = "val" THEN @ + 1 ELSE @,
                               !.hist.val_explicit =
                                   IF canonical_phase = "val" /\ epoch # None THEN @ + 1 ELSE @,
                               !.hist.epochs[canonical_phase] =
                                   Append(@, [phase |-> phase, given |-> epoch,
                                              recorded |-> counted.epoch[canonical_phase]])]
    /\ UNCHANGED ctx
    /\ UNCHANGED <<planner_vars, proxy_vars>>

\* msg(msg): a line of logging.log, on rank 0 only
Msg(msg) ==
    /\ lx.initialized
    /\ lx.rank0 => lx.has_rank0_fields
    /\ last.n < MaxMsgs
    /\ fs' = IF lx.rank0 THEN AppendRow(fs, LOGGING_LOG, <<PyStr(msg)>>) ELSE fs
    /\ last' = Record("msg", PyStr(msg), None)
    /\ UNCHANGED <<lx, tb, ctx>>
    /\ UNCHANGED <<planner_vars, proxy_vars>>

\* the metrics and epochs a caller passes to save_model
SaveMetrics == {5, 7}
SaveEpochs == {0, 50}

\* is_better with >= and <=: an equal metric counts as better
is_better_or_equal(save_metric, best_metric, higher_better) ==
    \/ best_metric = None
    \/ higher_better /\ save_metric.v >= best_metric.v
    \/ ~higher_better /\ save_metric.v <= best_metric.v

\* is_better, lines 275-279
is_better(save_metric, best_metric, higher_better) ==
    \/ best_metric = None
    \/ higher_better /\ save_metric.v > best_metric.v
    \/ ~higher_better /\ save_metric.v < best_metric.v

\* the previous last checkpoint is never deleted
remove_old_never(files, save_ckpt_fn, delete_old) == files

\* with delete_old every last_checkpoint_ep file of logdir is deleted
remove_old_every_last(files, save_ckpt_fn, delete_old) ==
    IF delete_old
    THEN SelectSeq(files, LAMBDA f : f.name.stem # "last_checkpoint_ep")
    ELSE files

\* lines 301-302: the last checkpoint this object wrote is deleted
remove_old(files, save_ckpt_fn, delete_old) ==
    IF Exists(files, save_ckpt_fn) /\ delete_old
    THEN RemoveFile(files, save_ckpt_fn)
    ELSE files

\* save_model(save_dict, metric, epoch, higher_better, delete_old) on an
\* object whose initialize has returned; every call passes a dictionary of
\* its own, told apart by the number of the call
SaveModel(metric, epoch, higher_better, delete_old) ==
    /\ lx.initialized
    /\ lx.rank0 => lx.has_rank0_fields
    /\ Len(last.hist.saves) < MaxSaves
    /\ LET arg == [ty |-> "save_model",
                   v |-> [metric |-> metric, epoch |-> epoch,
                          higher_better |-> higher_better, delete_old |-> delete_old]]
           save_dict == PyDict([model |-> Len(last.hist.saves) + 1,
                                metric |-> PyInt(metric)])
           removed == remove_old(fs, lx.save_ckpt_fn, delete_old)
           save_ckpt_fn == last_checkpoint_ep(epoch)
           saved == WriteFile(removed, save_ckpt_fn, save_dict)
           better == is_better(PyInt(metric), lx.best_metric, higher_better)
           best_ckpt_fn == best_checkpoint_ep(epoch)
           unbest == IF Exists(saved, lx.best_ckpt_fn)
                     THEN RemoveFile(saved, lx.best_ckpt_fn)
                     ELSE saved
           call == [instance |-> last.hist.instance, rank0 |-> lx.rank0,
                    metric |-> metric, epoch |-> epoch,
                    higher_better |-> higher_better, delete_old |-> delete_old,
                    save_dict |-> save_dict]
       IN  IF ~lx.rank0
           THEN /\ last' = [Record("save_model", arg, None)
                               EXCEPT !.hist.saves = Append(@, call)]
                /\ UNCHANGED <<lx, fs>>
           ELSE /\ fs' = IF better THEN copyfile(unbest, save_ckpt_fn, best_ckpt_fn)
                          ELSE saved
                /\ lx' = [lx EXCEPT
                             !.save_ckpt_fn = save_ckpt_fn,
                             !.save_metric = PyInt(metric),
                             !.best_ckpt_fn = IF better THEN best_ckpt_fn ELSE @,
                             !.best_metric = IF better THEN PyInt(metric) ELSE @]
                /\ last' = [Record("save_model", arg, [ty |-> "bool", v |-> better])
                               EXCEPT !.hist.saves = Append(@, call)]
    /\ UNCHANGED <<tb, ctx>>
    /\ UNCHANGED <<planner_vars, proxy_vars>>

\* del log_x; log_x = logx.LogX(): the files of logdir stay
NewInstance ==
    /\ lx.initialized
    /\ ctx = <<>>
    /\ last.hist.instance < MaxInstances
    /\ lx' = NewLogX
    /\ tb' = NoWriter
    /\ last' = [Record("LogX", None, None) EXCEPT !.n = 0, !.hist.instance = @ + 1]
    /\ UNCHANGED <<fs, ctx>>
    /\ UNCHANGED <<planner_vars, proxy_vars>>

\* the files another program leaves in logdir: names that are, and names
\* that are almost, those of best checkpoints
ForeignNames ==
    { FileName("best_checkpoint_ep", <<5>>, ".", "pth"),
      FileName("best_checkpoint_ep", <<1, 0>>, ".", "pth"),
      FileName("best_checkpoint_ep", <<5>>, "x", "pth"),
      FileName("best_checkpoint_ep", <<>>, ".", "pth"),
      FileName("last_checkpoint_ep", <<2, 0>>, ".", "pth"),
      FileName("best_checkpoint_ep", <<2, 0>>, ".", "pth.bak") }

\* with open(os.path.join(logdir, name), 'w') as fd: fd.write(...)
TouchFile(name) ==
    /\ ~Exists(fs, name)
    /\ Cardinality({i \in DOMAIN fs : fs[i].name \in ForeignNames}) < MaxFiles
    /\ fs' = WriteFile(fs, name, PyStr("blah"))
    /\ last' = [Record("open", None, None) EXCEPT !.n = last.n]
    /\ UNCHANGED <<lx, tb, ctx>>
    /\ UNCHANGED <<planner_vars, proxy_vars>>

\* get_best_checkpoint() on an initialized object
GetBestCheckpoint ==
    /\ lx.initialized
    /\ \E listing \in Listings(fs) :
          last' = [Record("get_best_checkpoint", None,
                          [ty |-> "path", v |-> get_best_checkpoint(listing)])
                      EXCEPT !.n = last.n]
    /\ UNCHANGED <<lx, tb, fs, ctx>>
    /\ UNCHANGED <<planner_vars, proxy_vars>>

\* ------------------------------------------------------------ distributions
CategoricalDistribution(categories, literal) ==
    [cls |-> "CategoricalDistribution", categories |-> categories, literal |-> literal]

\* super().__init__(categories) leaves literal at its default, False
MultinomialDistribution(categories, weights) ==
    [cls |-> "MultinomialDistribution", categories |-> categories, literal |-> FALSE,
     weights |-> [i \in DOMAIN weights |-> <<weights[i], SumSeq(weights)>>]]

UniformDistribution(low, high, is_integer) ==
    [cls |-> "UniformDistribution", low |-> low, high |-> high, is_integer |-> is_integer]

NormalDistribution(mean, std) ==
    [cls |-> "NormalDistribution", mean |-> mean, std |-> std]

LogUniformDistribution(low, high, base) ==
    [cls |-> "LogUniformDistribution", low |-> low, high |-> high, base |-> base]

IsCategorical(d) == d.cls \in {"CategoricalDistribution", "MultinomialDistribution"}

\* is_discrete answering True for every Categorical, whatever its literal flag
is_discrete_any_categorical(d) == IsCategorical(d)

\* the is_discrete property: BaseDistribution says False, Categorical says self.literal
is_discrete(d) == IF IsCategorical(d) THEN d.literal ELSE FALSE

\* enumerate(): the categories verbatim, NotSupportedException on the base class
dist_enumerate(d) ==
    IF IsCategorical(d) THEN PyList(d.categories) ELSE Raise("NotSupportedException")

\* sample(): the set of values one draw can return
SampleSet(d) ==
    CASE d.cls = "CategoricalDistribution" -> Range(d.categories)
      [] d.cls = "MultinomialDistribution" ->
            {d.categories[i] : i \in {j \in DOMAIN d.categories : d.weights[j][1] > 0}}
      [] d.cls = "UniformDistribution" ->
            IF d.is_integer THEN {PyInt(k) : k \in d.low .. d.high}
            ELSE {PyFloat(k) : k \in d.low .. d.high}
      [] d.cls = "NormalDistribution" -> {PyFloat(d.mean - d.std), PyFloat(d.mean + d.std)}
      [] d.cls = "LogUniformDistribution" -> {PyFloat(k) : k \in d.low .. d.high}

\* ------------------------------------------------------------ the factory
\* the keys of _FACTORIES
FACTORIES == {"uniform", "normal", "log_uniform", "categorical", "multinomial"}

\* the keyword parameters of each constructor, and those without a default
CtorParams(name) ==
    CASE name = "uniform" -> {"low", "high", "is_integer"}
      [] name = "normal" -> {"mean", "std"}
      [] name = "log_uniform" -> {"low", "high", "base"}
      [] name = "categorical" -> {"categories", "literal"}
      [] name = "multinomial" -> {"categories", "weights"}

CtorRequired(name) ==
    CASE name = "uniform" -> {"low", "high"}
      [] name = "normal" -> {}
      [] name = "log_uniform" -> {"low", "high"}
      [] name = "categorical" -> {"categories"}
      [] name = "multinomial" -> {"categories", "weights"}

Arg(kw, k, default) == IF k \in DOMAIN kw THEN kw[k] ELSE default

\* math.e, the default base of LogUniformDistribution
MathE == [ty |-> "float", v |-> "e"]

\* _FACTORIES[dist_name](**cfg): a call with a missing or an unexpected keyword
\* raises TypeError; sum(weights) = 0 divides by zero
Construct(name, kw) ==
    IF ~(DOMAIN kw \subseteq CtorParams(name) /\ CtorRequired(name) \subseteq DOMAIN kw)
    THEN Raise("TypeError")
    ELSE CASE name = "uniform" ->
                PyDist(UniformDistribution(kw.low, kw.high, Arg(kw, "is_integer", FALSE)))
           [] name = "normal" ->
                PyDist(NormalDistribution(Arg(kw, "mean", 0), Arg(kw, "std", 1)))
           [] name = "log_uniform" ->
                PyDist(LogUniformDistribution(kw.low, kw.high, Arg(kw, "base", MathE)))
           [] name = "categorical" ->
                PyDist(CategoricalDistribution(kw.categories, Arg(kw, "literal", FALSE)))
           [] name = "multinomial" ->
                IF SumSeq(kw.weights) = 0 THEN Raise("ZeroDivisionError")
                ELSE PyDist(MultinomialDistribution(kw.categories, kw.weights))

\* convert_to_distribution without the isinstance(val, BaseDistribution) test
convert_to_distribution_no_passthrough(val) ==
    IF val.ty = "list" THEN PyDist(CategoricalDistribution(val.v, TRUE))
    ELSE PyDist(CategoricalDistribution(<<val>>, TRUE))

convert_to_distribution(val) ==
    IF val.ty = "dist" THEN val
    ELSE IF val.ty = "list" THEN PyDist(CategoricalDistribution(val.v, TRUE))
    ELSE PyDist(CategoricalDistribution(<<val>>, TRUE))

\* load_config without line 142: "distribution" is forwarded to the constructor
load_config_keeps_key(cfg) ==
    IF cfg.ty = "dict" /\ "distribution" \in DOMAIN cfg.v
    THEN LET dist_name == cfg.v.distribution
             v == IF dist_name \in FACTORIES THEN Construct(dist_name, cfg.v)
                  ELSE Raise("KeyError")
         IN  IF IsRaise(v) THEN v ELSE convert_to_distribution(v)
    ELSE convert_to_distribution(cfg)

\* the result is a PyDist, or the Raise that left the function
load_config(cfg) ==
    IF cfg.ty = "dict" /\ "distribution" \in DOMAIN cfg.v
    THEN LET dist_name == cfg.v.distribution
             kw == [k \in DOMAIN cfg.v \ {"distribution"} |-> cfg.v[k]]
             v == IF dist_name \in FACTORIES THEN Construct(dist_name, kw)
                  ELSE Raise("KeyError")
         IN  IF IsRaise(v) THEN v ELSE convert_to_distribution(v)
    ELSE convert_to_distribution(cfg)

\* ------------------------------------------------- partitioner and enumerator
\* a split that numbers every pair by its place in its own output list
discrete_continuous_split_own_index(distributions) ==
    LET n == Len(distributions)
        disc == Filter(distributions, [i \in 1 .. n |-> is_discrete(distributions[i])])
        cont == Filter(distributions, [i \in 1 .. n |-> ~is_discrete(distributions[i])])
    IN  [disc |-> [k \in DOMAIN disc |-> <<k - 1, disc[k]>>],
         cont |-> [k \in DOMAIN cont |-> <<k - 1, cont[k]>>]]

\* pairs <<i, dist>> with Python's 0-based index i, in input order
discrete_continuous_split(distributions) ==
    LET n == Len(distributions)
        pairs == [i \in 1 .. n |-> <<i - 1, distributions[i]>>]
    IN  [disc |-> Filter(pairs, [i \in 1 .. n |-> is_discrete(distributions[i])]),
         cont |-> Filter(pairs, [i \in 1 .. n |-> ~is_discrete(distributions[i])])]

RECURSIVE ConcatAll(_)
ConcatAll(ss) == IF ss = <<>> THEN <<>> ELSE Head(ss) \o ConcatAll(Tail(ss))

\* Product with the loops nested the other way round: the leftmost list
\* varies fastest
RECURSIVE ProductLeftFastest(_)
ProductLeftFastest(lists) ==
    IF lists = <<>> THEN << <<>> >>
    ELSE LET h == Head(lists)
             rest == ProductLeftFastest(Tail(lists))
         IN  ConcatAll([j \in 1 .. Len(rest) |-> [i \in 1 .. Len(h) |-> <<h[i]>> \o rest[j]]])

\* itertools.product(*lists) as a list: the rightmost list varies fastest
RECURSIVE Product(_)
Product(lists) ==
    IF lists = <<>> THEN << <<>> >>
    ELSE LET h == Head(lists)
             rest == Product(Tail(lists))
         IN  ConcatAll([i \in 1 .. Len(h) |-> [j \in 1 .. Len(rest) |-> <<h[i]>> \o rest[j]]])

\* enumerate_dists pairing the lists element by element (zip) instead of
\* crossing them
enumerate_dists_zip(distributions) ==
    LET all_prims == [i \in DOMAIN distributions |-> dist_enumerate(distributions[i])]
        bad == {i \in DOMAIN all_prims : IsRaise(all_prims[i])}
        shortest == IF all_prims = <<>> THEN 0
                    ELSE CHOOSE m \in {Len(all_prims[i].v) : i \in DOMAIN all_prims} :
                            \A i \in DOMAIN all_prims : m <= Len(all_prims[i].v)
    IN  IF bad # {} THEN all_prims[CHOOSE i \in bad : \A j \in bad : i <= j]
        ELSE PyList([g \in 1 .. shortest |-> [i \in DOMAIN all_prims |-> all_prims[i].v[g]]])

\* a PyList of rows, or the Raise of the first enumerate() that fails
enumerate_dists(distributions) ==
    LET all_prims == [i \in DOMAIN distributions |-> dist_enumerate(distributions[i])]
        bad == {i \in DOMAIN all_prims : IsRaise(all_prims[i])}
    IN  IF bad # {} THEN all_prims[CHOOSE i \in bad : \A j \in bad : i <= j]
        ELSE PyList(Product([i \in DOMAIN all_prims |-> all_prims[i].v]))

\* sample_dists building its row back to front
RECURSIVE sample_dists_reversed(_)
sample_dists_reversed(distributions) ==
    IF distributions = <<>> THEN {<<>>}
    ELSE {t \o <<h>> : h \in SampleSet(Head(distributions)),
                       t \in sample_dists_reversed(Tail(distributions))}

\* [d.sample() for d in distributions]: the set of rows one call can return
RECURSIVE sample_dists(_)
sample_dists(distributions) ==
    IF distributions = <<>> THEN {<<>>}
    ELSE {<<h>> \o t : h \in SampleSet(Head(distributions)),
                       t \in sample_dists(Tail(distributions))}

\* ------------------------------------------------------------- the planner
\* for k in hparams: hparams[k] = load_config(hparams[k])
Loaded(hp) == [i \in DOMAIN hp |-> load_config(hp[i].val)]

\* the position of the first value whose load_config raises, 0 when none does
FirstRaise(hp) ==
    LET bad == {i \in DOMAIN hp : IsRaise(Loaded(hp)[i])}
    IN  IF bad = {} THEN 0 ELSE CHOOSE i \in bad : \A j \in bad : i <= j

\* the caller's mapping when the loop ends or is left by the exception: the
\* values before the failing one are replaced, the others are as they were
AfterLoad(hp) ==
    [i \in DOMAIN hp |->
        IF FirstRaise(hp) = 0 \/ i < FirstRaise(hp)
        THEN [hp[i] EXCEPT !.val = Loaded(hp)[i]]
        ELSE hp[i]]

\* hparams.values() after a loop that raised nothing
Values(hp) == [i \in DOMAIN hp |-> Loaded(hp)[i].v]

Second(pairs) == [k \in DOMAIN pairs |-> pairs[k][2]]

discrete_dists(hp) == discrete_continuous_split(Values(hp)).disc
continuous_dists(hp) == discrete_continuous_split(Values(hp)).cont

\* enumerate_dists([d[1] for d in discrete_dists]); every such d is a
\* Categorical with literal set, whose enumerate() does not raise
discrete_realizations(hp) == enumerate_dists(Second(discrete_dists(hp))).v

\* required_trials rounding down: math.floor in place of math.ceil
required_trials_floor(n, D) == (n \div D) * D

\* required_trials rounding up to the next multiple even from a multiple
required_trials_next(n, D) == ((n \div D) + 1) * D

\* line 181, D being len(discrete_realizations)
required_trials(n, D) == Ceil(n, D) * D

\* Path with line 160 comparing the wrong way: num_trials < len(realizations)
Path_flipped(hp, n) ==
    IF FirstRaise(hp) # 0 THEN "load_error"
    ELSE IF discrete_dists(hp) # <<>> /\ continuous_dists(hp) = <<>>
    THEN IF n = 0 \/ n < Len(discrete_realizations(hp))
         THEN "discrete_full" ELSE "discrete_choices"
    ELSE IF n = 0 THEN "zero_trials"
    ELSE IF continuous_dists(hp) # <<>> /\ discrete_dists(hp) = <<>> THEN "continuous"
    ELSE IF Len(discrete_realizations(hp)) = 0 THEN "zero_division"
    ELSE IF required_trials(n, Len(discrete_realizations(hp))) > 2 * n THEN "grid_too_large"
    ELSE "mixed"

\* Path with the num_trials == 0 test of line 165 placed after the
\* continuous-only branch
Path_zero_late(hp, n) ==
    IF FirstRaise(hp) # 0 THEN "load_error"
    ELSE IF discrete_dists(hp) # <<>> /\ continuous_dists(hp) = <<>>
    THEN IF n = 0 \/ n > Len(discrete_realizations(hp))
         THEN "discrete_full" ELSE "discrete_choices"
    ELSE IF continuous_dists(hp) # <<>> /\ discrete_dists(hp) = <<>> THEN "continuous"
    ELSE IF n = 0 THEN "zero_trials"
    ELSE IF Len(discrete_realizations(hp)) = 0 THEN "zero_division"
    ELSE IF required_trials(n, Len(discrete_realizations(hp))) > 2 * n THEN "grid_too_large"
    ELSE "mixed"

\* Path with line 183 testing required_trials >= 2 * num_trials
Path_ge(hp, n) ==
    IF FirstRaise(hp) # 0 THEN "load_error"
    ELSE IF discrete_dists(hp) # <<>> /\ continuous_dists(hp) = <<>>
    THEN IF n = 0 \/ n > Len(discrete_realizations(hp))
         THEN "discrete_full" ELSE "discrete_choices"
    ELSE IF n = 0 THEN "zero_trials"
    ELSE IF continuous_dists(hp) # <<>> /\ discrete_dists(hp) = <<>> THEN "continuous"
    ELSE IF Len(discrete_realizations(hp)) = 0 THEN "zero_division"
    ELSE IF required_trials(n, Len(discrete_realizations(hp))) >= 2 * n THEN "grid_too_large"
    ELSE "mixed"

\* Path with line 183 allowing three times the budget
Path_triple(hp, n) ==
    IF FirstRaise(hp) # 0 THEN "load_error"
    ELSE IF discrete_dists(hp) # <<>> /\ continuous_dists(hp) = <<>>
    THEN IF n = 0 \/ n > Len(discrete_realizations(hp))
         THEN "discrete_full" ELSE "discrete_choices"
    ELSE IF n = 0 THEN "zero_trials"
    ELSE IF continuous_dists(hp) # <<>> /\ discrete_dists(hp) = <<>> THEN "continuous"
    ELSE IF Len(discrete_realizations(hp)) = 0 THEN "zero_division"
    ELSE IF required_trials(n, Len(discrete_realizations(hp))) > 3 * n THEN "grid_too_large"
    ELSE "mixed"

\* Path with line 157 testing only that there is no continuous parameter
Path_no_continuous(hp, n) ==
    IF FirstRaise(hp) # 0 THEN "load_error"
    ELSE IF continuous_dists(hp) = <<>>
    THEN IF n = 0 \/ n > Len(discrete_realizations(hp))
         THEN "discrete_full" ELSE "discrete_choices"
    ELSE IF n = 0 THEN "zero_trials"
    ELSE IF continuous_dists(hp) # <<>> /\ discrete_dists(hp) = <<>> THEN "continuous"
    ELSE IF Len(discrete_realizations(hp)) = 0 THEN "zero_division"
    ELSE IF required_trials(n, Len(discrete_realizations(hp))) > 2 * n THEN "grid_too_large"
    ELSE "mixed"

\* the branch a call takes, decided before any realization is generated
Path(hp, n) ==
    IF FirstRaise(hp) # 0 THEN "load_error"
    ELSE IF discrete_dists(hp) # <<>> /\ continuous_dists(hp) = <<>>
    THEN IF n = 0 \/ n > Len(discrete_realizations(hp))
         THEN "discrete_full" ELSE "discrete_choices"
    ELSE IF n = 0 THEN "zero_trials"
    ELSE IF continuous_dists(hp) # <<>> /\ discrete_dists(hp) = <<>> THEN "continuous"
    ELSE IF Len(discrete_realizations(hp)) = 0 THEN "zero_division"
    ELSE IF required_trials(n, Len(discrete_realizations(hp))) > 2 * n THEN "grid_too_large"
    ELSE "mixed"

\* Assign writing at k, the position in the group, not at the saved index
Assign_by_position(ret, pairs, vals) ==
    [i \in DOMAIN ret |-> IF i <= Len(vals) THEN vals[i] ELSE ret[i]]

\* for k, r in enumerate(vals): ret[pairs[k][0]] = r
RECURSIVE Assign(_, _, _)
Assign(ret, pairs, vals) ==
    IF vals = <<>> THEN ret
    ELSE Assign([ret EXCEPT ![Head(pairs)[1] + 1] = Head(vals)], Tail(pairs), Tail(vals))

\* one realization of the mixed branch, lines 201-207
Splice(nparams, split, disc_realization, cont_realization) ==
    LET ret0 == [i \in 1 .. nparams |-> None]
        ret1 == Assign(ret0, split.disc, disc_realization)
    IN  Assign(ret1, split.cont, cont_realization)

\* the list the mixed branch builds from the rows the random source gave,
\* samples[j] being the j-th call of sample_dists
\* (nparams is len(hparams), split the partition, grid the discrete enumeration)
MixedRealizations(nparams, split, grid, n, samples) ==
    LET required == required_trials(n, Len(grid))
        num_trials_per_disc == required \div Len(grid)
    IN  [j \in 1 .. required |->
            Splice(nparams, split, grid[((j - 1) \div num_trials_per_disc) + 1], samples[j])]

Enter(n) ==
    /\ pc = "idle"
    /\ pc' = "returned"
    /\ before' = hparams
    /\ num_trials' = n
    /\ hparams' = AfterLoad(hparams)
    /\ UNCHANGED <<proxy_vars, logx_vars>>

Raises(exc) ==
    /\ outcome' = exc
    /\ realizations' = <<>>
    /\ warned' = FALSE
    /\ draws' = 0

\* line 153 raises: unknown distribution name, bad constructor arguments
RaisesInLoad(n) ==
    /\ Enter(n)
    /\ Path(hparams, n) = "load_error"
    /\ Raises(Loaded(hparams)[FirstRaise(hparams)].v)

\* lines 157-161
ReturnsEnumeration(n) ==
    /\ Enter(n)
    /\ Path(hparams, n) = "discrete_full"
    /\ outcome' = "ok"
    /\ realizations' = discrete_realizations(hparams)
    /\ warned' = FALSE
    /\ draws' = 0

\* lines 162-163: random.choices(realizations, k=num_trials)
ReturnsChoices(n) ==
    /\ Enter(n)
    /\ Path(hparams, n) = "discrete_choices"
    /\ outcome' = "ok"
    /\ \E population \in {discrete_realizations(hparams)} :
          \E pick \in [1 .. n -> 1 .. Len(population)] :
             realizations' = [j \in 1 .. n |-> population[pick[j]]]
    /\ warned' = FALSE
    /\ draws' = n

\* lines 165-168
RaisesZeroTrials(n) ==
    /\ Enter(n)
    /\ Path(hparams, n) = "zero_trials"
    /\ Raises("ValueError: trials must be specified")

\* lines 170-177
ReturnsSamples(n) ==
    /\ Enter(n)
    /\ Path(hparams, n) = "continuous"
    /\ outcome' = "ok"
    /\ realizations' \in [1 .. n -> sample_dists(Second(continuous_dists(hparams)))]
    /\ warned' = FALSE
    /\ draws' = n * Len(continuous_dists(hparams))

\* line 181 with an empty discrete grid: num_trials / 0
RaisesZeroDivision(n) ==
    /\ Enter(n)
    /\ Path(hparams, n) = "zero_division"
    /\ Raises("ZeroDivisionError")

\* the size check made after the sampling loop instead of before it
RaisesGridTooLarge_after_sampling(n) ==
    /\ Enter(n)
    /\ Path(hparams, n) = "grid_too_large"
    /\ outcome' = "ValueError: grid too large"
    /\ realizations' = <<>>
    /\ warned' = FALSE
    /\ draws' = required_trials(n, Len(discrete_realizations(hparams)))
                    * Len(continuous_dists(hparams))

\* lines 183-189
RaisesGridTooLarge(n) ==
    /\ Enter(n)
    /\ Path(hparams, n) = "grid_too_large"
    /\ Raises("ValueError: grid too large")

\* lines 190-211
ReturnsMixed(n) ==
    /\ Enter(n)
    /\ Path(hparams, n) = "mixed"
    /\ outcome' = "ok"
    /\ \E split \in {discrete_continuous_split(Values(hparams))},
          grid \in {discrete_realizations(hparams)} :
          /\ \E samples \in [1 .. required_trials(n, Len(grid)) ->
                                sample_dists(Second(split.cont))] :
                realizations' = MixedRealizations(Len(hparams), split, grid, n, samples)
          /\ warned' = (required_trials(n, Len(grid)) > n)
          /\ draws' = required_trials(n, Len(grid)) * Len(split.cont)

enumerate_hparams(n) ==
    \/ RaisesInLoad(n)
    \/ ReturnsEnumeration(n)
    \/ ReturnsChoices(n)
    \/ RaisesZeroTrials(n)
    \/ ReturnsSamples(n)
    \/ RaisesZeroDivision(n)
    \/ RaisesGridTooLarge(n)
    \/ ReturnsMixed(n)

\* the caller is done with the returned list (or the exception) and keeps its
\* mapping, which it may pass to enumerate_hparams again
CallerContinues ==
    /\ pc = "returned"
    /\ pc' = "idle"
    /\ before' = hparams
    /\ num_trials' = 0
    /\ outcome' = "none"
    /\ realizations' = <<>>
    /\ warned' = FALSE
    /\ draws' = 0
    /\ UNCHANGED hparams
    /\ UNCHANGED <<proxy_vars, logx_vars>>

\* ------------------------------------------------------------------ inputs
\* the raw specifications a caller writes: a scalar, lists, a mapping without
\* the "distribution" key, and descriptors of every registered variant, of an
\* unregistered name and with a required argument missing.  No two of them
\* share a value, so a value tells which parameter it belongs to.  The
\* sampled variants are given arguments their sample() accepts (a non-empty
\* range, categories to choose from, a positive total weight); an empty list
\* is among the literal lists.
RawSpecs ==
    { PyInt(7),
      PyList(<<PyInt(1), PyInt(2), PyInt(3)>>),
      PyList(<<>>),
      PyDict([note |-> "a mapping that is a literal"]),
      PyDict([distribution |-> "uniform", low |-> 10, high |-> 11, is_integer |-> TRUE]),
      PyDict([distribution |-> "normal", mean |-> 20, std |-> 0]),
      PyDict([distribution |-> "log_uniform", low |-> 30, high |-> 30]),
      PyDict([distribution |-> "categorical", categories |-> <<PyInt(40), PyInt(41)>>]),
      PyDict([distribution |-> "categorical", categories |-> <<PyInt(50), PyInt(51)>>,
              literal |-> TRUE]),
      PyDict([distribution |-> "multinomial", categories |-> <<PyInt(60), PyInt(61)>>,
              weights |-> <<2, 0>>]),
      PyDict([distribution |-> "gaussian", mean |-> 0]),
      PyDict([distribution |-> "uniform", low |-> 10]) }

\* the ordered mappings of at most MaxParams parameters; the i-th key is i
Spaces ==
    UNION {[1 .. k -> RawSpecs] : k \in 0 .. MaxParams}

Mapping(specs) == [i \in DOMAIN specs |-> [key |-> i, val |-> specs[i]]]

Init ==
    /\ hparams \in {Mapping(s) : s \in Spaces}
    /\ before = hparams
    /\ num_trials = 0
    /\ pc = "idle"
    /\ outcome = "none"
    /\ realizations = <<>>
    /\ warned = FALSE
    /\ draws = 0
    /\ ProxyInit
    /\ LogXInit

Next ==
    \/ \E n \in 0 .. MaxTrials : enumerate_hparams(n)
    \/ CallerContinues

Spec == Init /\ [][Next]_vars

\* --------------------------------------------- the other specifications
\* a caller making and using proxies around one Increment object
ProxyStart == ProxyInit /\ PlannerIdle /\ LogXInit

ProxySpec == ProxyStart /\ [][ProxyNext]_vars

LogXStart == LogXInit /\ PlannerIdle /\ ProxyInit

\* a process writing to tensorboard through a LogX object
TensorboardNext ==
    \/ \E tensorboard \in BOOLEAN, global_rank \in 0 .. MaxRank, eager_flush \in BOOLEAN :
          Initialize(tensorboard, global_rank, eager_flush, FALSE, FALSE)
    \/ \E method \in {"add_scalar", "add_image", "add_scalars"} :
          LogXWrite(method, <<"train", "loss">>)
    \/ \E flush_at_end \in BOOLEAN : SuspendEnter(flush_at_end)
    \/ SuspendExit

TensorboardSpec == LogXStart /\ [][TensorboardNext]_vars

\* a process recording metrics through a LogX object
MetricsNext ==
    \/ \E tensorboard \in BOOLEAN, global_rank \in 0 .. MaxRank, no_timestamp \in BOOLEAN :
          Initialize(tensorboard, global_rank, TRUE, no_timestamp, FALSE)
    \/ \E phase \in MetricPhases, metrics \in MetricDicts, epoch \in MetricEpochs :
          Metric(phase, metrics, epoch)

MetricsSpec == LogXStart /\ [][MetricsNext]_vars

\* a process looking for the best checkpoint in a logdir that other
\* programs write to
CheckpointNext ==
    \/ \E global_rank \in 0 .. MaxRank, with_hparams \in BOOLEAN :
          Initialize(FALSE, global_rank, TRUE, FALSE, with_hparams)
    \/ \E name \in ForeignNames : TouchFile(name)
    \/ GetBestCheckpoint

CheckpointSpec == LogXStart /\ [][CheckpointNext]_vars

\* the rank 0 process of a training job saving checkpoints, stopped and
\* started again on the same logdir
SaveNext ==
    \/ Initialize(FALSE, 0, TRUE, FALSE, FALSE)
    \/ \E metric \in SaveMetrics, epoch \in SaveEpochs,
          higher_better \in BOOLEAN, delete_old \in BOOLEAN :
          SaveModel(metric, epoch, higher_better, delete_old)
    \/ NewInstance

SaveSpec == LogXStart /\ [][SaveNext]_vars

\* a process of a distributed job whose global rank is not 0
WorkerNext ==
    \/ \E tensorboard \in BOOLEAN, global_rank \in 1 .. MaxRank, with_hparams \in BOOLEAN :
          Initialize(tensorboard, global_rank, TRUE, FALSE, with_hparams)
    \/ Msg("hello")
    \/ \E phase \in {"train", "val"}, metrics \in MetricDicts : Metric(phase, metrics, None)
    \/ LogXWrite("add_scalar", <<"train", "loss">>)
    \/ \E metric \in SaveMetrics, epoch \in SaveEpochs :
          SaveModel(metric, epoch, TRUE, TRUE)

WorkerSpec == LogXStart /\ [][WorkerNext]_vars

\* =================================================================== claims
\* The space of a call is the mapping the call was entered with (before).
\* What a claim says about a space is stated from the distributions the
\* loading loop stored for its parameters: the per-parameter value lists,
\* their sizes and the position arithmetic of the Cartesian order are
\* computed here, not taken from the planner's branches.

Returned == pc = "returned"

\* every specification of the space was accepted by the factory: the loop
\* of line 153 has replaced every value by its distribution (C8 and C9 relate
\* the stored distribution to the raw specification)
SpaceLoads == \A i \in DOMAIN hparams : hparams[i].val.ty = "dist"

\* the distribution of the parameter at position i
DistOf(i) == hparams[i].val.v

DiscretePositions == {i \in DOMAIN before : is_discrete(DistOf(i))}
ContinuousPositions == {i \in DOMAIN before : ~is_discrete(DistOf(i))}

DiscreteOnlySpace ==
    Returned /\ SpaceLoads /\ DiscretePositions # {} /\ ContinuousPositions = {}

ContinuousOnlySpace ==
    Returned /\ SpaceLoads /\ ContinuousPositions # {} /\ DiscretePositions = {}

MixedSpace ==
    Returned /\ SpaceLoads /\ ContinuousPositions # {} /\ DiscretePositions # {}

\* the value list of the discrete parameter at position i
ValueList(i) == DistOf(i).categories

\* the values a realization may hold at position i
ValuesOf(i) ==
    IF is_discrete(DistOf(i)) THEN Range(ValueList(i)) ELSE SampleSet(DistOf(i))

\* the number of combinations of the discrete parameters at positions in P
RECURSIVE GridSize(_)
GridSize(P) ==
    IF P = {} THEN 1
    ELSE LET i == CHOOSE x \in P : TRUE IN Len(ValueList(i)) * GridSize(P \ {i})

\* in Cartesian order the g-th combination (from 1) holds, at discrete position
\* i, the element of i's list numbered by the digit of g - 1 whose weight is
\* the number of combinations of the discrete positions to the right of i
CartesianEntry(g, i) ==
    LET stride == GridSize({x \in DiscretePositions : x > i})
    IN  ValueList(i)[(((g - 1) \div stride) % Len(ValueList(i))) + 1]

\* the rows of length Len(before) holding at every position one of its values
Combinations ==
    {row \in [DOMAIN before -> UNION {ValuesOf(i) : i \in DOMAIN before}] :
        \A i \in DOMAIN before : row[i] \in ValuesOf(i)}

\* C1: for a discrete-only space of enumeration size E, num_trials = 0 or
\* num_trials > E returns exactly E realizations, every combination exactly
\* once, in Cartesian-product order (rightmost parameter varying fastest).
C1_FullEnumeration ==
    (DiscreteOnlySpace
        /\ (num_trials = 0 \/ num_trials > GridSize(DiscretePositions)))
    => /\ outcome = "ok"
       /\ Len(realizations) = GridSize(DiscretePositions)
       /\ \A g \in DOMAIN realizations :
             /\ Len(realizations[g]) = Len(before)
             /\ \A i \in DOMAIN before : realizations[g][i] = CartesianEntry(g, i)
       /\ \A row \in Combinations :
             Cardinality({g \in DOMAIN realizations : realizations[g] = row}) = 1

\* a two-parameter grid of at least four combinations, enumerated with no budget
C1_Witness ==
    /\ DiscreteOnlySpace
    /\ num_trials = 0
    /\ Len(before) = 2
    /\ Len(realizations) >= 4
    /\ realizations[1][1] = realizations[2][1]
    /\ realizations[1][2] # realizations[2][2]

\* C2: for a discrete-only space and 0 < num_trials <= E the call returns
\* exactly num_trials realizations, each a member of the full enumeration,
\* each drawn from the random source; duplicates are possible.
C2_ChoicesWithReplacement ==
    (DiscreteOnlySpace
        /\ 0 < num_trials /\ num_trials <= GridSize(DiscretePositions))
    => /\ outcome = "ok"
       /\ Len(realizations) = num_trials
       /\ draws = num_trials
       /\ \A j \in DOMAIN realizations :
             /\ Len(realizations[j]) = Len(before)
             /\ \A i \in DOMAIN before : realizations[j][i] \in Range(ValueList(i))

\* num_trials = E and the same combination drawn twice, so one is absent
C2_Witness ==
    /\ DiscreteOnlySpace
    /\ num_trials = GridSize(DiscretePositions)
    /\ num_trials >= 2
    /\ realizations[1] = realizations[2]

\* C3: for a continuous-only space and num_trials = N > 0 the call returns
\* exactly N realizations, each holding one sample per parameter, in
\* parameter order, every sample a separate draw.
C3_ContinuousSamples ==
    (ContinuousOnlySpace /\ num_trials > 0)
    => /\ outcome = "ok"
       /\ Len(realizations) = num_trials
       /\ draws = num_trials * Len(before)
       /\ \A j \in DOMAIN realizations :
             /\ Len(realizations[j]) = Len(before)
             /\ \A i \in DOMAIN before : realizations[j][i] \in SampleSet(DistOf(i))

\* two parameters, two realizations, and the two draws of a parameter differ
C3_Witness ==
    /\ ContinuousOnlySpace
    /\ num_trials = 2
    /\ Len(before) = 2
    /\ Len(realizations) = 2
    /\ realizations[1][1] # realizations[2][1]
    /\ realizations[1][2] = realizations[2][2]

\* C4: with at least one continuous parameter, num_trials = 0 fails with the
\* zero-trials ValueError and returns nothing; a discrete-only space with
\* num_trials = 0 never raises it.
C4_ZeroTrials ==
    /\ (Returned /\ SpaceLoads /\ ContinuousPositions # {} /\ num_trials = 0)
       => (outcome = "ValueError: trials must be specified" /\ realizations = <<>>)
    /\ (DiscreteOnlySpace /\ num_trials = 0)
       => outcome # "ValueError: trials must be specified"

\* a mixed space called with num_trials = 0
C4_Witness ==
    /\ MixedSpace
    /\ num_trials = 0
    /\ outcome = "ValueError: trials must be specified"

\* the smallest multiple of d that is >= n, for d >= 1
SmallestMultiple(n, d) == CHOOSE m \in n .. (n + d - 1) : m % d = 0

\* D (the number of discrete combinations) and required, of the last call
NumGrid == GridSize(DiscretePositions)
Required == SmallestMultiple(num_trials, NumGrid)

C6_BudgetGuard ==
    (MixedSpace /\ num_trials > 0 /\ NumGrid >= 1)
    => /\ (Required > 2 * num_trials)
          => (outcome = "ValueError: grid too large" /\ realizations = <<>> /\ ~warned)
       /\ (num_trials < Required /\ Required <= 2 * num_trials)
          => (outcome = "ok" /\ warned)
       /\ (Required = num_trials)
          => (outcome = "ok" /\ ~warned)

\* a grid of 3 against a budget of 1
C6_Witness ==
    /\ MixedSpace
    /\ NumGrid = 3
    /\ num_trials = 1
    /\ outcome = "ValueError: grid too large"

\* C7: every realization returned, in every kind of space, has one entry per
\* parameter of the mapping and its i-th entry is a value of the i-th
\* parameter's distribution.
C7_RealizationShape ==
    (Returned /\ outcome = "ok")
    => \A j \in DOMAIN realizations :
          /\ Len(realizations[j]) = Len(before)
          /\ \A i \in DOMAIN before :
                realizations[j][i] # None /\ realizations[j][i] \in ValuesOf(i)

\* a continuous parameter ahead of a discrete one, both spliced into a row
C7_Witness ==
    /\ MixedSpace
    /\ outcome = "ok"
    /\ Len(before) = 2
    /\ 1 \in ContinuousPositions
    /\ 2 \in DiscretePositions
    /\ Len(realizations) >= 2

\* a mapping with the key "distribution"
IsDescriptor(x) == x.ty = "dict" /\ "distribution" \in DOMAIN x.v

\* the values of the mapping the factory loop of the last call replaced
Replaced == {i \in DOMAIN before : FirstRaise(before) = 0 \/ i < FirstRaise(before)}

\* C8: load_config maps a list to a discrete Categorical over exactly its
\* elements in order, any other value that is no descriptor to a one-element
\* discrete Categorical, a Distribution to itself; applying it twice gives
\* what applying it once gives.
C8_LoadConfigIdempotent ==
    Returned =>
        \A i \in DOMAIN before :
            LET x == before[i].val
                y == load_config(x)
            IN  /\ (x.ty = "list") =>
                       y = PyDist([cls |-> "CategoricalDistribution",
                                   categories |-> x.v, literal |-> TRUE])
                /\ (x.ty \notin {"list", "dist"} /\ ~IsDescriptor(x)) =>
                       y = PyDist([cls |-> "CategoricalDistribution",
                                   categories |-> <<x>>, literal |-> TRUE])
                /\ (x.ty = "dist") => y = x
                /\ ~IsRaise(y) => load_config(y) = y
                /\ (i \in Replaced) =>
                       (hparams[i].val = y /\ load_config(hparams[i].val) = hparams[i].val)

\* a call on a mapping an earlier call has normalised: nothing changes
C8_Witness ==
    /\ Returned
    /\ Len(before) = 2
    /\ \A i \in DOMAIN before : before[i].val.ty = "dist"
    /\ before[1].val.v.cls = "CategoricalDistribution"
    /\ before[2].val.v.cls = "UniformDistribution"
    /\ outcome = "ok"
    /\ hparams = before

\* the class registered under each name
RegisteredClass ==
    [uniform |-> "UniformDistribution", normal |-> "NormalDistribution",
     log_uniform |-> "LogUniformDistribution", categorical |-> "CategoricalDistribution",
     multinomial |-> "MultinomialDistribution"]

\* C9: a mapping with the key "distribution" becomes the variant registered
\* under that name, built from exactly the remaining keys; an unregistered
\* name or a missing required argument makes the call fail and yields no
\* Distribution; a mapping without the key is a single literal.
C9_Descriptor ==
    Returned =>
        /\ \A i \in DOMAIN before :
            LET x == before[i].val
                y == load_config(x)
                rest == DOMAIN x.v \ {"distribution"}
            IN  /\ IsDescriptor(x) =>
                    /\ (x.v.distribution \notin DOMAIN RegisteredClass)
                          => y = Raise("KeyError")
                    /\ (/\ x.v.distribution \in DOMAIN RegisteredClass
                        /\ ~(CtorRequired(x.v.distribution) \subseteq rest))
                          => y = Raise("TypeError")
                    /\ (/\ x.v.distribution \in DOMAIN RegisteredClass
                        /\ CtorRequired(x.v.distribution) \subseteq rest
                        /\ rest \subseteq CtorParams(x.v.distribution))
                          => /\ y.ty = "dist"
                             /\ y.v.cls = RegisteredClass[x.v.distribution]
                             /\ \A k \in rest \ {"weights"} : y.v[k] = x.v[k]
                             /\ ("weights" \in rest) =>
                                   \A j \in DOMAIN x.v.weights :
                                      y.v.weights[j] = <<x.v.weights[j], SumSeq(x.v.weights)>>
                /\ (x.ty = "dict" /\ ~IsDescriptor(x)) =>
                       y = PyDist([cls |-> "CategoricalDistribution",
                                   categories |-> <<x>>, literal |-> TRUE])
        /\ \A i \in DOMAIN before :
              (FirstRaise(before) = i) =>
                 /\ outcome = load_config(before[i].val).v
                 /\ outcome \in {"KeyError", "TypeError"}
                 /\ realizations = <<>>
                 /\ hparams[i].val = before[i].val

\* a uniform descriptor the call has turned into a UniformDistribution
C9_Witness ==
    /\ Returned
    /\ outcome = "ok"
    /\ \E i \in DOMAIN before :
          /\ IsDescriptor(before[i].val)
          /\ before[i].val.v.distribution = "uniform"
          /\ hparams[i].val.ty = "dist"
          /\ hparams[i].val.v.cls = "UniformDistribution"
          /\ hparams[i].val.v.low = before[i].val.v.low

DiscreteIndices == {pair[1] + 1 : pair \in Range(discrete_dists(before))}
ContinuousIndices == {pair[1] + 1 : pair \in Range(continuous_dists(before))}

\* the call enumerated the discrete grid (it did not draw from it)
GridEnumerated ==
    /\ outcome = "ok"
    /\ realizations # <<>>
    /\ ~(ContinuousPositions = {} /\ 0 < num_trials /\ num_trials <= NumGrid)

SpaceDists == [i \in DOMAIN before |-> DistOf(i)]

Ascending(pairs) ==
    \A k \in DOMAIN pairs : \A l \in DOMAIN pairs : k < l => pairs[k][1] < pairs[l][1]

\* C11: discrete_continuous_split puts the distribution at input position i
\* into the discrete output iff its is_discrete is true and into the
\* continuous output otherwise, paired with its original index i: the indices
\* of the two outputs are disjoint, together cover 0..n-1 exactly once, and
\* ascend within each output.
C11_SplitPartition ==
    (Returned /\ SpaceLoads) =>
        \A dists \in {SpaceDists} :
        \A split \in {discrete_continuous_split(dists)} :
            LET n == Len(dists)
                disc_idx == {pair[1] : pair \in Range(split.disc)}
                cont_idx == {pair[1] : pair \in Range(split.cont)}
            IN  /\ \A i \in 0 .. n - 1 :
                      /\ is_discrete(dists[i + 1]) <=> <<i, dists[i + 1]>> \in Range(split.disc)
                      /\ ~is_discrete(dists[i + 1]) <=> <<i, dists[i + 1]>> \in Range(split.cont)
                /\ disc_idx \cap cont_idx = {}
                /\ disc_idx \cup cont_idx = 0 .. n - 1
                /\ Len(split.disc) + Len(split.cont) = n
                /\ Ascending(split.disc)
                /\ Ascending(split.cont)

\* a sampled parameter before an enumerated one: the discrete output holds
\* index 1 only, the continuous output index 0 only
C11_Witness ==
    /\ MixedSpace
    /\ Len(before) = 2
    /\ discrete_continuous_split(SpaceDists).disc = << <<1, DistOf(2)>> >>
    /\ discrete_continuous_split(SpaceDists).cont = << <<0, DistOf(1)>> >>

\* the distributions of the space that have value lists (every Categorical
\* and Multinomial), in order, and their lists
EnumerableDists ==
    Filter(SpaceDists, [i \in DOMAIN before |-> IsCategorical(DistOf(i))])

EnumerableLists == [k \in DOMAIN EnumerableDists |-> EnumerableDists[k].categories]

\* the product of the lengths of lists[from], lists[from + 1], ...
RECURSIVE LenProduct(_, _)
LenProduct(lists, from) ==
    IF from > Len(lists) THEN 1 ELSE Len(lists[from]) * LenProduct(lists, from + 1)

\* C12: enumerate_dists returns the full Cartesian product of its inputs'
\* enumerate() lists: as many rows as the product of the lists' lengths (1
\* for no input, 0 when a list is empty), column j of every row a value of
\* input j, in product order with the rightmost input varying fastest.
C12_CartesianProduct ==
    (Returned /\ SpaceLoads) =>
        \A dists \in {EnumerableDists} :
        \A lists \in {[k \in DOMAIN dists |-> dists[k].categories]} :
        \A weight \in {[j \in DOMAIN lists |-> LenProduct(lists, j + 1)]} :
        \A rows \in {enumerate_dists(dists)} :
            /\ rows.ty = "list"
            /\ Len(rows.v) = LenProduct(lists, 1)
            /\ (lists = <<>>) => rows.v = << <<>> >>
            /\ (\E j \in DOMAIN lists : lists[j] = <<>>) => rows.v = <<>>
            /\ \A g \in DOMAIN rows.v :
                  /\ Len(rows.v[g]) = Len(lists)
                  /\ \A j \in DOMAIN lists :
                        /\ rows.v[g][j] \in Range(lists[j])
                        /\ rows.v[g][j] =
                              lists[j][(((g - 1) \div weight[j]) % Len(lists[j])) + 1]

\* a list of three values crossed with a list of two: six rows, the first
\* two differing in the right column only
C12_Witness ==
    /\ Returned
    /\ SpaceLoads
    /\ Len(EnumerableLists) = 2
    /\ Len(EnumerableLists[1]) = 3
    /\ Len(EnumerableLists[2]) = 2
    /\ Len(enumerate_dists(EnumerableDists).v) = 6
    /\ enumerate_dists(EnumerableDists).v[1][1] = enumerate_dists(EnumerableDists).v[2][1]
    /\ enumerate_dists(EnumerableDists).v[1][2] # enumerate_dists(EnumerableDists).v[2][2]

\* C13 as stated: for every Distribution, enumerate() fails with the
\* not-supported error exactly when is_discrete is false and succeeds
\* exactly when it is true, so that enumerate_dists fails whenever one of
\* its inputs is not discrete.
C13_EnumerateIffDiscrete ==
    (Returned /\ SpaceLoads) =>
        /\ \A i \in DOMAIN before :
              IsRaise(dist_enumerate(DistOf(i))) <=> ~is_discrete(DistOf(i))
        /\ (\E i \in DOMAIN before : ~is_discrete(DistOf(i)))
              => IsRaise(enumerate_dists(SpaceDists))

\* C14: whenever enumerate_hparams fails (unknown distribution name, missing
\* constructor argument, zero trials with a continuous parameter, grid too
\* large, division by an empty grid) it fails before generation: no
\* continuous sample has been drawn and no realization list is returned.
C14_FailsBeforeGeneration ==
    (Returned /\ outcome # "ok") =>
        /\ outcome \in {"KeyError", "TypeError", "ValueError: trials must be specified",
                         "ValueError: grid too large", "ZeroDivisionError"}
        /\ draws = 0
        /\ realizations = <<>>

\* a grid of three combinations beside a sampled parameter with a budget of
\* one trial: the call fails on the grid size with nothing sampled
C14_Witness ==
    /\ MixedSpace
    /\ NumGrid = 3
    /\ num_trials = 1
    /\ outcome = "ValueError: grid too large"
    /\ draws = 0

\* C15 as stated: a call leaves no residual state: afterwards the caller's
\* mapping holds the same keys in the same order with the same raw
\* specifications as before the call.
C15_NoResidualState ==
    Returned => hparams = before

\* ------------------------------------------------- ConditionalProxy, LogX
\* C16: for a ConditionalProxy(obj, cond, post_hook): with cond true a call
\* of a method through the proxy runs the real method exactly once with the
\* same argument and returns its result, and then runs post_hook exactly
\* once when one is given; with cond false it runs neither and leaves the
\* real object's state unchanged; with cond true a method the real object
\* does not have raises AttributeError.
C16_ConditionalProxy ==
    (last_call.name # "none") =>
        LET c == last_call
            given == c.post_hook # "None"
        IN  /\ (c.condition /\ c.name = "call") =>
                  /\ c.trace = << <<"call", c.value>> >>
                                  \o (IF given THEN << <<c.post_hook>> >> ELSE <<>>)
                  /\ counter = c.counter_before + c.value
                  /\ post_hook_called = c.hook_before + (IF given THEN 1 ELSE 0)
                  /\ c.result.ty = "NoneType"
            /\ (~c.condition) =>
                  /\ c.trace = <<>>
                  /\ counter = c.counter_before
                  /\ post_hook_called = c.hook_before
                  /\ c.result.ty = "NoneType"
            /\ (c.condition /\ c.name # "call") =>
                  /\ c.result.ty = "raise"
                  /\ c.result.v = "AttributeError"
                  /\ c.trace = <<>>
                  /\ counter = c.counter_before
                  /\ post_hook_called = c.hook_before

\* the last call of utils_test.py: call(-10) through a proxy with a true
\* condition and a hook brings the counter from 10 back to 0 and runs the hook
C16_Witness ==
    /\ last_call.name = "call"
    /\ last_call.value = -10
    /\ last_call.condition
    /\ last_call.post_hook = "post_hook"
    /\ last_call.counter_before = 10
    /\ counter = 0
    /\ post_hook_called = 1

WriteOps == {"add_scalar", "add_image", "add_scalars"}

\* initialize was called with tensorboard=True and global_rank=0
TensorboardOn == last.hist.tensorboard /\ last.hist.global_rank = 0

\* C17: after initialize(tensorboard=t, global_rank=r) a tensorboard writer
\* exists and add_scalar / add_image calls reach it iff t is true and r = 0;
\* for every other combination the calls do nothing and logdir gets no
\* tensorboard event file.
C17_TensorboardIffRankZero ==
    lx.initialized =>
        /\ (lx.tb_writer = "SummaryWriter") <=> TensorboardOn
        /\ Exists(fs, EVENTS_FILE) <=> TensorboardOn
        /\ (~TensorboardOn) => (tb.calls = <<>> /\ tb.flushes = 0)
        /\ (last.op \in WriteOps) =>
              IF TensorboardOn
              THEN /\ Len(tb.calls) = last.calls_before + 1
                   /\ tb.calls[Len(tb.calls)].method = last.op
              ELSE /\ Len(tb.calls) = last.calls_before
                   /\ tb.flushes = last.flushes_before

\* tensorboard asked for on a rank other than 0: add_scalar has been called
\* and nothing was written
C17_Witness ==
    /\ lx.initialized
    /\ last.hist.tensorboard
    /\ last.hist.global_rank # 0
    /\ last.op = "add_scalar"
    /\ tb.calls = <<>>
    /\ ~Exists(fs, EVENTS_FILE)

ExpectedFields(items, epoch_number) ==
    <<PyStr("val")>>
        \o [f \in 1 .. 2 * Len(items) |->
               IF f % 2 = 1 THEN PyStr(items[(f + 1) \div 2].k) ELSE items[f \div 2].v]
        \o <<PyStr("epoch"), PyInt(epoch_number)>>

\* C19: on rank 0 a metric call whose phase is a validation alias ('val',
\* 'validate', 'validation', 'test') appends exactly one row to metrics.csv,
\* after the rows of the earlier calls: 'val', the metric key/value pairs in
\* dictionary order, then 'epoch' and the epoch number (then the timestamp,
\* unless timestamps are off); a call whose phase is a training alias
\* appends no row.  The epoch recorded is the epoch argument when one is
\* given, and while every call for the phase has passed epoch=None the i-th
\* call (from 0) records i.
C19_MetricRows ==
    (lx.initialized /\ lx.rank0 /\ last.op = "metric" /\ last.result.ty # "raise") =>
        LET a == last.arg.v
            rows == MetricsRows(fs)
        IN  /\ (a.phase \in {"trn", "train", "training"}) => rows = last.rows_before
            /\ (a.phase \in {"val", "validate", "validation", "test"}) =>
                  /\ Len(rows) = Len(last.rows_before) + 1
                  /\ SubSeq(rows, 1, Len(rows) - 1) = last.rows_before
                  /\ \A e \in {rows[Len(rows)][2 * Len(a.metrics) + 3].v} :
                        /\ rows[Len(rows)] =
                              ExpectedFields(a.metrics, e)
                                  \o (IF lx.no_timestamp THEN <<>>
                                      ELSE <<PyStr("timestamp"), Timestamp>>)
                        /\ (a.epoch.ty = "int") => e = a.epoch.v
                        /\ (last.hist.val_explicit = 0) => e = last.hist.val_calls - 1

\* two validation calls under different aliases, both without an epoch: the
\* second one's row, after the start row and the first one's, records epoch 1
C19_Witness ==
    /\ lx.rank0
    /\ last.op = "metric"
    /\ last.arg.v.phase = "test"
    /\ last.hist.val_calls = 2
    /\ last.hist.val_explicit = 0
    /\ Len(last.arg.v.metrics) = 2
    /\ Len(MetricsRows(fs)) = 3
    /\ MetricsRows(fs)[3][7] = PyInt(1)

\* a file named best_checkpoint_ep<digits>.pth
NamedBestCheckpoint(name) ==
    /\ name.stem = "best_checkpoint_ep"
    /\ name.digits # <<>>
    /\ name.sep = "."
    /\ name.ext = "pth"

\* C20 as stated: get_best_checkpoint returns None iff logdir holds no file
\* named best_checkpoint_ep<digits>.pth, and otherwise such a file with the
\* numerically highest epoch, whatever the order the files were created in.
C20_BestCheckpoint ==
    (last.op = "get_best_checkpoint") =>
        LET named == {name \in Range(Names(fs)) : NamedBestCheckpoint(name)}
            found == last.result.v
        IN  /\ (found = NoPath) <=> (named = {})
            /\ (named # {}) =>
                  /\ found \in named
                  /\ \A name \in named : ParseInt(found.digits) >= ParseInt(name.digits)

\* ====================================== claims: the trial budget, revisited
\* C25: a successful call with num_trials >= 1 returns at most 2 * num_trials
\* realizations in every kind of space: at most num_trials for a
\* discrete-only space, exactly num_trials for a continuous-only space, and
\* required <= 2 * num_trials for a mixed space, whatever the grid size.
C25_TrialBudget ==
    (Returned /\ outcome = "ok" /\ num_trials >= 1)
    => /\ Len(realizations) <= 2 * num_trials
       /\ DiscreteOnlySpace => Len(realizations) <= num_trials
       /\ ContinuousOnlySpace => Len(realizations) = num_trials
       /\ MixedSpace => /\ Len(realizations) = Required
                        /\ Required <= 2 * num_trials

\* a grid of 2 against a budget of 1: the bound is met exactly
C25_Witness ==
    /\ MixedSpace
    /\ outcome = "ok"
    /\ num_trials = 1
    /\ NumGrid = 2
    /\ Len(realizations) = 2 * num_trials

\* the configuration errors of enumerate_hparams
ConfigurationErrors ==
    { "KeyError", "TypeError",
      "ValueError: trials must be specified", "ValueError: grid too large" }

\* C26 as stated: every failing call, those on spaces with an empty value
\* list and num_trials > 0 included, fails with a configuration error.
C26_ConfigurationErrorsOnly ==
    (Returned /\ outcome # "ok") => outcome \in ConfigurationErrors

\* C27: in a mixed space with D >= 1 discrete combinations and n >= 1 the
\* grid-too-large error is raised iff D > 2 * n; with n >= D the call succeeds
\* with n <= required < n + D <= 2 * n; with n < D a successful call returns
\* required = D realizations, the combinations in order, each with one set of
\* continuous draws.
C27_GridTooLarge ==
    (MixedSpace /\ NumGrid >= 1 /\ num_trials >= 1)
    => /\ (outcome = "ValueError: grid too large") <=> (NumGrid > 2 * num_trials)
       /\ (num_trials >= NumGrid)
          => /\ outcome = "ok"
             /\ num_trials <= Len(realizations)
             /\ Len(realizations) < num_trials + NumGrid
             /\ num_trials + NumGrid <= 2 * num_trials
       /\ (num_trials < NumGrid /\ outcome = "ok")
          => /\ Len(realizations) = NumGrid
             /\ draws = NumGrid * Cardinality(ContinuousPositions)
             /\ \A g \in 1 .. NumGrid : \A i \in DiscretePositions :
                   realizations[g][i] = CartesianEntry(g, i)

\* a grid of 3 against a budget of 2: three realizations, three draws
C27_Witness ==
    /\ MixedSpace
    /\ num_trials = 2
    /\ NumGrid = 3
    /\ outcome = "ok"
    /\ draws = 3

\* C30: for the empty mapping num_trials = 0 fails with the zero-trials
\* error, and num_trials = N > 0 returns exactly N empty realizations.
C30_EmptyMapping ==
    (Returned /\ before = <<>>)
    => /\ (num_trials = 0)
          => (outcome = "ValueError: trials must be specified" /\ realizations = <<>>)
       /\ (num_trials > 0)
          => /\ outcome = "ok"
             /\ Len(realizations) = num_trials
             /\ draws = 0
             /\ \A j \in DOMAIN realizations : realizations[j] = <<>>

\* the empty mapping and a budget of 2
C30_Witness ==
    /\ Returned
    /\ before = <<>>
    /\ num_trials = 2
    /\ Len(realizations) = 2

\* ============================================= claims: LogX, continued
\* the metric calls of the session made for a canonical phase, in order, each
\* with the alias it was made under, the epoch it was given and the epoch it
\* recorded
MetricCalls(canonical_phase) == last.hist.epochs[canonical_phase]

\* C28: there is one epoch counter per canonical phase, shared by the aliases
\* of the phase. A metric call with epoch=None records 0 if it is the first
\* call of its canonical phase, the previously recorded epoch + 1 if the
\* previous call of the phase gave no epoch either, and the previously
\* recorded epoch itself if the previous call gave one; an explicit epoch e is
\* recorded as e and leaves the counter at e.
C28_EpochCounter ==
    \A p \in {"train", "val"} :
       LET h == MetricCalls(p)
       IN  /\ \A k \in DOMAIN h :
                 /\ h[k].phase \in (IF p = "val" THEN val_names ELSE trn_names)
                 /\ h[k].recorded =
                       IF h[k].given # None THEN h[k].given.v
                       ELSE IF k = 1 THEN 0
                       ELSE IF h[k - 1].given = None THEN h[k - 1].recorded + 1
                       ELSE h[k - 1].recorded
           /\ (h # <<>>) =>
                 lx.epoch[p] = IF h[Len(h)].given # None THEN h[Len(h)].given.v
                               ELSE h[Len(h)].recorded + 1
           /\ (h = <<>> /\ lx.initialized) => lx.epoch[p] = 0
           /\ (last.op = "metric" /\ last.result = None /\ lx.rank0 /\ p = "val"
                 /\ last.arg.v.phase \in val_names)
              => LET rows == MetricsRows(fs)
                 IN  rows[Len(rows)][2 * Len(last.arg.v.metrics) + 3].v
                        = h[Len(h)].recorded

\* an explicit epoch 5 under one validation alias, then epoch=None under
\* another: 5 is recorded again
C28_Witness ==
    LET h == MetricCalls("val")
    IN  /\ Len(h) = 2
        /\ h[1].phase # h[2].phase
        /\ h[1].given = PyInt(5)
        /\ h[2].given = None
        /\ h[2].recorded = 5
        /\ MetricCalls("train") = <<>>

\* the save_model calls made on the logdir so far, by every LogX object
SaveCalls == last.hist.saves

\* those made by the object now in use
SessionSaves == {k \in DOMAIN SaveCalls : SaveCalls[k].instance = last.hist.instance}

BestCheckpoints(files) == {name \in Range(Names(files)) : NamedBestCheckpoint(name)}

\* the files named last_checkpoint_ep<digits>.pth
LastCheckpoints(files) ==
    {name \in Range(Names(files)) :
        /\ name.stem = "last_checkpoint_ep"
        /\ name.digits # <<>>
        /\ name.sep = "."
        /\ name.ext = "pth"}

\* C21: after each of a sequence of save_model calls with higher_better=True
\* on rank 0, starting from an empty logdir, exactly one best_checkpoint_ep
\* file exists; it holds the dictionary of the earliest call with the maximum
\* metric so far, get_best_checkpoint returns it for every listing, and the
\* call returned true iff it set a new best.
C21_BestCheckpoint ==
    (/\ last.op = "save_model"
     /\ \A k \in DOMAIN SaveCalls : SaveCalls[k].rank0 /\ SaveCalls[k].higher_better)
    => LET h == SaveCalls
           top == CHOOSE k \in DOMAIN h :
                     /\ \A j \in DOMAIN h : h[j].metric <= h[k].metric
                     /\ \A j \in 1 .. k - 1 : h[j].metric < h[k].metric
           best == FileName("best_checkpoint_ep", Decimal(h[top].epoch), ".", "pth")
       IN  /\ BestCheckpoints(fs) = {best}
           /\ ContentOf(fs, best) = h[top].save_dict
           /\ \A listing \in Listings(fs) : get_best_checkpoint(listing) = best
           /\ last.result.v = (top = Len(h))

\* two calls with the same metric and different epochs: the first one's
\* dictionary stays the best checkpoint and the second call returns false
C21_Witness ==
    /\ last.op = "save_model"
    /\ Len(SaveCalls) = 2
    /\ \A k \in DOMAIN SaveCalls : SaveCalls[k].rank0 /\ SaveCalls[k].higher_better
    /\ SaveCalls[1].instance = SaveCalls[2].instance
    /\ SaveCalls[1].metric = SaveCalls[2].metric
    /\ SaveCalls[1].epoch = 0
    /\ SaveCalls[2].epoch = 50
    /\ last.result.v = FALSE
    /\ ContentOf(fs, best_checkpoint_ep(0)).v.model = 1

\* C22: a new LogX initialized on rank 0 on a logdir that holds a best
\* checkpoint adopts that file as best_ckpt_fn and its stored metric as
\* best_metric; a save_model call made while a best checkpoint exists leaves
\* the file and its contents unchanged if its metric is not better than the
\* stored one, and replaces the file by its own best checkpoint if it is.
C22_Resumption ==
    /\ (last.op = "initialize" /\ lx.rank0 /\ last.result = None
           /\ BestCheckpoints(fs) # {})
       => /\ lx.best_ckpt_fn \in BestCheckpoints(fs)
          /\ lx.best_metric = ContentOf(fs, lx.best_ckpt_fn).v.metric
    /\ (last.op = "save_model" /\ lx.rank0)
       => \A old \in BestCheckpoints(last.files_before) :
             LET stored == ContentOf(last.files_before, old).v.metric.v
                 a == last.arg.v
                 better == IF a.higher_better THEN a.metric > stored
                           ELSE a.metric < stored
                 new == FileName("best_checkpoint_ep", Decimal(a.epoch), ".", "pth")
             IN  IF better
                 THEN /\ BestCheckpoints(fs) = {new}
                      /\ ContentOf(fs, new) = SaveCalls[Len(SaveCalls)].save_dict
                      /\ last.result.v
                 ELSE /\ BestCheckpoints(fs) = {old}
                      /\ ContentOf(fs, old) = ContentOf(last.files_before, old)
                      /\ ~last.result.v

\* the first object saved metric 7 at epoch 0; a second object on the same
\* logdir saves the worse metric 5 at epoch 50 and the best checkpoint is
\* still the first one's
C22_Witness ==
    /\ last.op = "save_model"
    /\ Len(SaveCalls) = 2
    /\ SaveCalls[1].instance = 1
    /\ SaveCalls[2].instance = 2
    /\ SaveCalls[1].higher_better /\ SaveCalls[2].higher_better
    /\ SaveCalls[1].metric = 7
    /\ SaveCalls[2].metric = 5
    /\ SaveCalls[1].epoch = 0
    /\ SaveCalls[2].epoch = 50
    /\ BestCheckpoints(fs) = {best_checkpoint_ep(0)}
    /\ ContentOf(fs, best_checkpoint_ep(0)) = SaveCalls[1].save_dict

\* C23 as stated: on a LogX initialized with global_rank != 0 no sequence of
\* initialize, msg, metric, add_scalar and save_model calls creates or
\* modifies a file of logdir.
C23_OnlyRankZeroWrites ==
    (lx.initialized /\ ~lx.rank0) => fs = <<>>

\* C24: within one LogX session on rank 0, if every save_model call of the
\* session had delete_old=True, after each call the only last checkpoint file
\* written by the session is that of the most recent call; if every call had
\* delete_old=False the last checkpoints of all the session's calls exist,
\* one per epoch, each holding the dictionary of the latest call with its
\* epoch.
C24_LastCheckpoint ==
    (last.op = "save_model" /\ lx.rank0)
    => LET h == SaveCalls
           mine == SessionSaves
           name(k) == FileName("last_checkpoint_ep", Decimal(h[k].epoch), ".", "pth")
           written == {name(k) : k \in mine}
           present == written \cap Range(Names(fs))
       IN  /\ (\A k \in mine : h[k].delete_old)
              => /\ present = {name(Len(h))}
                 /\ ContentOf(fs, name(Len(h))) = h[Len(h)].save_dict
           /\ (\A k \in mine : ~h[k].delete_old)
              => /\ present = written
                 /\ Cardinality(present) = Cardinality({h[k].epoch : k \in mine})
                 /\ \A k \in mine :
                       (\A j \in mine : j > k => h[j].epoch # h[k].epoch)
                       => ContentOf(fs, name(k)) = h[k].save_dict

\* two calls of one session with delete_old=True and different epochs: the
\* first call's last checkpoint is gone
C24_Witness ==
    /\ last.op = "save_model"
    /\ lx.rank0
    /\ SessionSaves = {1, 2}
    /\ SaveCalls[1].delete_old /\ SaveCalls[2].delete_old
    /\ SaveCalls[1].epoch # SaveCalls[2].epoch
    /\ LastCheckpoints(fs) = {last_checkpoint_ep(SaveCalls[2].epoch)}

====
